---------------------------- MODULE Spec2Model ----------------------------
(***************************************************************************)
(* Model of the two flag scrapers of foltone/flagame:                      *)
(*   src/scrape_flags.py              (the gallery pipeline)               *)
(*   src/scrape_flags_proportions.py  (the proportions pipeline)           *)
(*                                                                         *)
(* A Python string is modelled as a sequence of characters, each character *)
(* a one-token TLA+ string ("a", "E_acute", "rsquo", ...).  A URL is a     *)
(* sequence of tokens in which "/" and "?" are tokens of their own.        *)
(***************************************************************************)
EXTENDS Integers, Sequences, FiniteSets, TLC

(***************************************************************************)
(* Bounds of the model.                                                    *)
(***************************************************************************)
\* cells (gallery) or rows (proportions) the loops take, over all the runs
MaxCells == 2
\* the length of the names normalize_name is called on, on its own
MaxLen == 4
\* runs of the script on the same directory (a run may follow an interrupt)
MaxRuns == 2

(***************************************************************************)
(* Characters and normalize_name.                                          *)
(***************************************************************************)
\* s.replace(old, new) for one-character old and new
ReplaceChar(s, old, new) == [i \in 1..Len(s) |-> IF s[i] = old THEN new ELSE s[i]]

RECURSIVE FlatMap(_, _)
\* the concatenation of F[s[i]] over the characters of s
FlatMap(F, s) == IF s = <<>> THEN <<>> ELSE F[Head(s)] \o FlatMap(F, Tail(s))

\* the characters of the model that are ASCII
AsciiChars == {"a", "b", "c", "d", "e", "f", "g", "i", "l", "m", "o", "p", "r", "u",
               "A", "E", "I", "M", "1", "_", "apos", "space", "hyphen"}

\* the characters of the model that are not ASCII
NonAsciiChars == {"e_acute", "E_acute", "comb_acute", "rsquo", "lsquo"}

Chars == AsciiChars \cup NonAsciiChars

\* unicodedata.normalize("NFKD", c) for one character
NFKD == [c \in Chars |->
           IF c = "e_acute" THEN <<"e", "comb_acute">>
           ELSE IF c = "E_acute" THEN <<"E", "comb_acute">>
           ELSE <<c>>]

\* c.encode("ascii", "ignore").decode("ascii") for one character
AsciiIgnore == [c \in Chars |-> IF c \in AsciiChars THEN <<c>> ELSE <<>>]

\* c.lower() for one ASCII character
Lower == [c \in Chars |->
            IF c = "A" THEN "a" ELSE IF c = "E" THEN "e"
            ELSE IF c = "I" THEN "i" ELSE IF c = "M" THEN "m" ELSE c]

\* the class [a-z0-9] of the regular expression
AlNum == {"a", "b", "c", "d", "e", "f", "g", "i", "l", "m", "o", "p", "r", "u", "1"}

RECURSIVE SubRuns(_, _)
\* re.sub(r"[^a-z0-9]+", "_", s); inRun: the previous character was replaced
SubRuns(s, inRun) ==
  IF s = <<>> THEN <<>>
  ELSE IF Head(s) \in AlNum THEN <<Head(s)>> \o SubRuns(Tail(s), FALSE)
  ELSE IF inRun THEN SubRuns(Tail(s), TRUE)
  ELSE <<"_">> \o SubRuns(Tail(s), TRUE)

RECURSIVE LStrip(_, _)
LStrip(s, c) == IF s # <<>> /\ Head(s) = c THEN LStrip(Tail(s), c) ELSE s

RECURSIVE RStrip(_, _)
RStrip(s, c) ==
  IF s # <<>> /\ s[Len(s)] = c THEN RStrip(SubSeq(s, 1, Len(s) - 1), c) ELSE s

\* a strip of the leading characters alone
StripLeading(s, c) == LStrip(s, c)

\* s.strip(c)
Strip(s, c) == RStrip(LStrip(s, c), c)

\* normalize_name(name)
normalize_name(name) ==
  LET apos == ReplaceChar(ReplaceChar(name, "rsquo", "apos"), "lsquo", "apos")
      nfkd == FlatMap(NFKD, apos)
      ascii == FlatMap(AsciiIgnore, nfkd)
      lower == [i \in 1..Len(ascii) |-> Lower[ascii[i]]]
  IN Strip(SubRuns(lower, FALSE), "_")

(***************************************************************************)
(* Order of Python strings (by code point) and sorted(dict.items()).       *)
(***************************************************************************)
\* ord(c) of the characters an identifier can hold
Ord == [c \in AlNum \cup {"_"} |->
          CASE c = "1" -> 49 [] c = "_" -> 95 [] c = "a" -> 97 [] c = "b" -> 98
            [] c = "c" -> 99 [] c = "d" -> 100 [] c = "e" -> 101 [] c = "f" -> 102
            [] c = "g" -> 103 [] c = "i" -> 105 [] c = "l" -> 108 [] c = "m" -> 109
            [] c = "o" -> 111 [] c = "p" -> 112 [] c = "r" -> 114 [] c = "u" -> 117]

RECURSIVE StrLess(_, _)
\* a < b for two Python strings
StrLess(a, b) ==
  IF b = <<>> THEN FALSE
  ELSE IF a = <<>> THEN TRUE
  ELSE IF Head(a) = Head(b) THEN StrLess(Tail(a), Tail(b))
  ELSE Ord[Head(a)] < Ord[Head(b)]

RECURSIVE InsertSorted(_, _)
\* item put before the first item of the sorted list with a greater key
InsertSorted(item, sorted) ==
  IF sorted = <<>> THEN <<item>>
  ELSE IF StrLess(item[1], Head(sorted)[1]) THEN <<item>> \o sorted
  ELSE <<Head(sorted)>> \o InsertSorted(item, Tail(sorted))

RECURSIVE SortItems(_)
\* sorted(d.items()) of a dict whose items are the <<key, value>> pairs
SortItems(items) ==
  IF items = <<>> THEN <<>>
  ELSE InsertSorted(items[Len(items)], SortItems(SubSeq(items, 1, Len(items) - 1)))

\* the keys of a list of items
Keys(items) == {items[i][1] : i \in 1..Len(items)}

\* d[key] of the dict with these items
Lookup(items, key) == (CHOOSE i \in 1..Len(items) : items[i][1] = key)
ValueOf(items, key) == items[Lookup(items, key)][2]

\* d[key] = value: the value replaced in place, or the item appended
SetItem(items, key, value) ==
  IF key \in Keys(items)
  THEN [i \in 1..Len(items) |-> IF items[i][1] = key THEN <<key, value>> ELSE items[i]]
  ELSE Append(items, <<key, value>>)

\* the mapping (a set of pairs) a list of items stands for
AsMapping(items) == {items[i] : i \in 1..Len(items)}

(***************************************************************************)
(* URLs.  A URL is a sequence of tokens; a token is a record: k is its     *)
(* text (or the stem of a file name), px the size prefix of a thumbnail's   *)
(* file name, n the country name a guessed file name is built from, e the  *)
(* file name's extension as written.                                       *)
(***************************************************************************)
Tok(k) == [px |-> "", k |-> k, n |-> <<>>, e |-> ""]
FileTok(px, k, n, e) == [px |-> px, k |-> k, n |-> n, e |-> e]
Slash == Tok("/")
Query == Tok("?")

\* src.startswith("http")
StartsWithHttp(url) == url # <<>> /\ url[1].k \in {"http:", "https:"}

\* s.startswith("//") and s.startswith("/")
StartsWithSlashSlash(url) == Len(url) >= 2 /\ url[1] = Slash /\ url[2] = Slash
StartsWithSlash(url) == url # <<>> /\ url[1] = Slash

\* "/thumb/" in src
HasThumb(url) ==
  \E i \in 1..(Len(url) - 2) :
     url[i] = Slash /\ url[i + 1] = Tok("thumb") /\ url[i + 2] = Slash

RECURSIVE ReplaceThumb(_)
\* src.replace("/thumb/", "/"): left to right, the matches not overlapping
ReplaceThumb(url) ==
  IF url = <<>> THEN <<>>
  ELSE IF Len(url) >= 3 /\ url[1] = Slash /\ url[2] = Tok("thumb") /\ url[3] = Slash
       THEN <<Slash>> \o ReplaceThumb(SubSeq(url, 4, Len(url)))
       ELSE <<Head(url)>> \o ReplaceThumb(Tail(url))

\* the places of the token t in url
Places(url, t) == {i \in 1..Len(url) : url[i] = t}

Max(S) == CHOOSE x \in S : \A y \in S : y <= x
Min(S) == CHOOSE x \in S : \A y \in S : x <= y

\* src.rsplit("/", 1)[0]
RSplitHead(url) ==
  IF Places(url, Slash) = {} THEN url
  ELSE SubSeq(url, 1, Max(Places(url, Slash)) - 1)

\* img_url.split("?")[0]
SplitQueryHead(url) ==
  IF Places(url, Query) = {} THEN url
  ELSE SubSeq(url, 1, Min(Places(url, Query)) - 1)

\* get_image_url(img_tag); src is img_tag.get("src", "")
get_image_url(src) ==
  IF src = <<>> THEN <<>>
  ELSE LET full == IF StartsWithHttp(src) THEN src ELSE <<Tok("https:")>> \o src
       IN IF HasThumb(full) THEN RSplitHead(ReplaceThumb(full)) ELSE full

\* e.lower() for the extensions of the model
LowerExt(e) == IF e = ".JPG" THEN ".jpg" ELSE IF e = ".SVG" THEN ".svg" ELSE e

\* the extension the image is stored under, from the URL's path
ExtOf(img_url) ==
  LET url_path == SplitQueryHead(img_url)
      last == IF url_path = <<>> THEN "" ELSE LowerExt(url_path[Len(url_path)].e)
  IN IF last = ".svg" THEN ".svg"
     ELSE IF last = ".jpg" \/ last = ".jpeg" THEN ".jpg"
     ELSE ".png"

(***************************************************************************)
(* The documents the model draws its cells and rows from.                  *)
(***************************************************************************)
\* labels: "Éab", "eab", "a-b", "- -" and "Macao"
LabEab == <<"E_acute", "a", "b">>
LabEab2 == <<"e", "a", "b">>
LabAB == <<"a", "hyphen", "b">>
LabPunct == <<"hyphen", "space", "hyphen">>
LabMacao == <<"M", "a", "c", "a", "o">>
Labels == {LabEab, LabEab2, LabAB, LabPunct, LabMacao}

\* the src attributes of the images of the model
SrcThumbSvg ==
  <<Slash, Slash, Tok("upload.wikimedia.org"), Slash, Tok("thumb"), Slash, Tok("7"),
    Slash, Tok("77"), Slash, FileTok("", "Flag", <<>>, ".svg"), Slash,
    FileTok("120px-", "Flag.svg", <<>>, ".png")>>
SrcJpgQuery ==
  <<Tok("https:"), Slash, Slash, Tok("upload.wikimedia.org"), Slash,
    FileTok("", "Flag", <<>>, ".JPG"), Query, Tok("v")>>
Srcs == {<<>>, SrcThumbSvg, SrcJpgQuery}

\* a cell of a gallery table: img: it holds an <img class="mw-file-element">,
\* drapeau: its text holds "Drapeau", links: the texts of its <a> elements
GalleryCells ==
  [img : BOOLEAN, drapeau : BOOLEAN, src : Srcs,
   links : {<<>>, <<<<>>>>} \cup {<<l>> : l \in Labels \ {LabMacao}}
             \cup {<<LabMacao, l>> : l \in {LabEab, LabAB}}]

\* a link of a row's first cell: href is "" (none), "file" (/wiki/File:...),
\* "category" (/wiki/Category:...) or "article" (anything else)
Link(href, text) == [href |-> href, text |-> text]
TextImage == <<"I", "m", "a", "g", "e">>
TextShort == <<"a", "b">>

\* a row of a proportions table: ncells: its number of <td>/<th>, links: the
\* links of its first cell, img: the first cell holds an <img>
ProportionRows ==
  [ncells : {1, 2}, img : {TRUE}, src : Srcs,
   links : {<<>>, <<Link("article", TextImage)>>, <<Link("article", TextShort)>>,
            <<Link("file", LabEab)>>, <<Link("category", LabEab)>>, <<Link("", LabEab)>>}
             \cup {<<Link("article", l)>> : l \in Labels \ {LabMacao}}
             \cup {<<Link("file", LabAB), Link("article", TextImage), Link("article", LabEab2),
                     Link("article", LabAB)>>}]
    \cup [ncells : {2}, img : {FALSE}, src : {<<>>},
          links : {<<Link("article", l)>> : l \in {LabEab2, LabMacao}}]

(***************************************************************************)
(* The state.                                                              *)
(***************************************************************************)
VARIABLES
  pipeline,             \* "gallery" or "proportions": the script that runs
  run,                  \* the number of the run of the script
  pc,                   \* the place of the run in main()
  file,                 \* JSON_FILE on disk
  store,                \* DRAPEAU_DIR on disk: <<name, "partial" | "bytes">>
  drapeaux,             \* the variable drapeaux of main()
  count,                \* the variable count
  errors,               \* the variable errors
  processed_countries,  \* the variable processed_countries (proportions)
  cell,                 \* cells or rows the loops have taken so far, in all the runs
  cur,                  \* the candidate of the cell or row the loop is at
  attempt,              \* the variable attempt of the download loop
  success,              \* the variable success
  search,               \* the locals of search_flag_in_page while it runs
  trace,                \* what the run did for the cell or row it is at
  snap,                 \* the catalog, the disk and the counts when the loop
                        \* took the cell or row it is at (history)
  committed,            \* the entries whose commit ran to its end (history)
  added,                \* the identifiers this run inserted (history)
  seen_rows,            \* the rows of this run whose label the row loop read, in
                        \* their order: the label, and whether the loop went on to
                        \* look for its image (history)
  arg,                  \* the argument of a function called on its own
  ret                   \* what the function called on its own returned

vars == <<pipeline, run, pc, file, store, drapeaux, count, errors, processed_countries,
          cell, cur, attempt, success, search, trace, snap, committed, added, seen_rows,
          arg, ret>>

\* the variables of a function called on its own: main() leaves them alone
called == <<arg, ret>>

\* the values of a Python variable holding what json.load returned
PyDict(items) == [kind |-> "dict", items |-> items]
PyList(items) == [kind |-> "list", items |-> items]
PyScalar == [kind |-> "scalar", items |-> <<>>]

\* the contents of JSON_FILE: no file, a file the process may not read, a JSON
\* object (complete, or cut short after some items: not valid JSON), a JSON
\* array, a JSON number or null
Unreadable == [kind |-> "unreadable", items |-> <<>>, complete |-> FALSE]
NoFile == [kind |-> "missing", items |-> <<>>, complete |-> FALSE]
ObjectText(items) == [kind |-> "object", items |-> items, complete |-> TRUE]
CutText(items) == [kind |-> "object", items |-> items, complete |-> FALSE]
ArrayText(items) == [kind |-> "array", items |-> items, complete |-> TRUE]
ScalarText == [kind |-> "scalar", items |-> <<>>, complete |-> TRUE]

\* the events of trace
Ev(ev, r, n) == [ev |-> ev, r |-> r, n |-> n]

\* the file of DRAPEAU_DIR an identifier is stored under
FileName(filename_base, ext) == <<filename_base, ext>>
WriteStore(st, name, content) == {f \in st : f[1] # name} \cup {<<name, content>>}

NoCell == [label |-> <<>>, id |-> <<>>, url |-> <<>>, ext |-> "", why |-> "none"]
NoSearch == [names |-> <<>>, i |-> 0, phase |-> "off"]
NoSnap == [taken |-> FALSE, drapeaux |-> <<>>, file |-> <<>>, store |-> {}, errors |-> 0,
           count |-> 0]
Snapshot == [taken |-> TRUE, drapeaux |-> drapeaux, file |-> file, store |-> store,
             errors |-> errors, count |-> count]

\* JSON_FILE as the run finds it: absent, unreadable, written by an earlier run,
\* cut short by an interrupted write, or holding JSON that is not an object
InitFiles ==
  {NoFile, Unreadable, ObjectText(<<<<normalize_name(LabAB), LabAB>>>>), CutText(<<>>),
   ArrayText(<<normalize_name(LabEab)>>), ScalarText}

Init ==
  /\ pipeline \in {"gallery", "proportions"}
  /\ run = 1
  /\ pc = "start"
  /\ file \in InitFiles
  /\ store = IF file.kind = "object"
             THEN {<<FileName(file.items[i][1], ".svg"), "bytes">> : i \in 1..Len(file.items)}
             ELSE {}
  /\ drapeaux = PyDict(<<>>)
  /\ count = 0
  /\ errors = 0
  /\ processed_countries = {}
  /\ cell = 0
  /\ cur = NoCell
  /\ attempt = 0
  /\ success = FALSE
  /\ search = NoSearch
  /\ trace = <<>>
  /\ snap = NoSnap
  /\ committed = {}
  /\ added = {}
  /\ seen_rows = <<>>
  /\ arg = <<>>
  /\ ret = <<>>

\* the variables of the cell or row the loop is at
locals == <<cur, attempt, success, search, trace>>

(***************************************************************************)
(* main(): the page and the catalog.                                       *)
(***************************************************************************)
\* requests.get(URL) and raise_for_status(): an exception ends the run
FetchPage(ok) ==
  /\ pc = "start"
  /\ pc' = IF ok THEN "load" ELSE "aborted"
  /\ UNCHANGED called
  /\ UNCHANGED seen_rows
  /\ UNCHANGED <<pipeline, run, file, store, drapeaux, count, errors,
                 processed_countries, cell, locals, snap, committed, added>>

\* json.load(f) of the text of JSON_FILE, when it does not raise
JsonLoad(f) ==
  IF f.kind = "object" THEN PyDict(f.items)
  ELSE IF f.kind = "array" THEN PyList(f.items)
  ELSE PyScalar

\* json.load raises on text that is not valid JSON
JsonLoadRaises(f) == f.kind = "object" /\ ~f.complete

\* a count that starts from zero whatever was loaded
CountFromZero(x) == 0

\* len(x) of a dict or a list
len(x) == Len(x.items)

\* len(x) raises TypeError on a number or None
LenRaises(x) == x.kind = "scalar"

\* open(JSON_FILE, "r") raises OSError on a file the process may not read
OpenRaises(f) == f.kind = "unreadable"

\* the value of drapeaux after the try block
LoadedCatalog(f) ==
  IF f.kind = "missing" \/ OpenRaises(f) \/ JsonLoadRaises(f) THEN PyDict(<<>>)
  ELSE JsonLoad(f)

\* the load of the catalog, count = len(drapeaux) and errors = 0
LoadCatalog ==
  /\ pc = "load"
  /\ drapeaux' = LoadedCatalog(file)
  /\ IF LenRaises(drapeaux')
     THEN pc' = "crashed" /\ UNCHANGED count
     ELSE pc' = "loop" /\ count' = len(drapeaux')
  /\ errors' = 0
  /\ processed_countries' = {}
  /\ UNCHANGED called
  /\ UNCHANGED seen_rows
  /\ UNCHANGED <<pipeline, run, file, store, cell, locals, snap, committed, added>>

\* a loop without its check for duplicates
ContainsNever(d, filename_base) == FALSE

\* filename_base in drapeaux
Contains(d, filename_base) ==
  IF d.kind = "dict" THEN filename_base \in Keys(d.items)
  ELSE \E i \in 1..Len(d.items) : d.items[i] = filename_base

(***************************************************************************)
(* The extraction of a candidate from a cell or a row.                     *)
(***************************************************************************)
\* get_text(strip=True) of a link
LinkText(text) == Strip(text, "space")

\* extract_country_name(cell)
extract_country_name(links) ==
  IF links = <<>> THEN <<>> ELSE LinkText(links[Len(links)])

\* a download loop that makes one attempt more
MaxAttemptsPlusOne(p) == IF p = "gallery" THEN 6 ELSE 4

\* the number of attempts of the download loop
MaxAttempts(p) == IF p = "gallery" THEN 5 ELSE 3

\* a pause of the same length in both scripts
PauseMsSame(p) == 500

\* the pause after a candidate, in milliseconds
PauseMs(p) == IF p = "gallery" THEN 500 ELSE 1000

\* a gallery loop without its check of the identifier
GalleryVerdictKeepsEmpty(c, d) ==
  LET country_label == extract_country_name(c.links)
      filename_base == normalize_name(country_label)
  IN IF ~c.img THEN "noimg"
     ELSE IF ~c.drapeau THEN "nodrapeau"
     ELSE IF country_label = <<>> THEN "nolabel"
     ELSE IF Contains(d, filename_base) THEN "dup"
     ELSE IF get_image_url(c.src) = <<>> THEN "nourl"
     ELSE "candidate"

\* what the gallery loop does with a cell, given the catalog
GalleryVerdict(c, d) ==
  LET country_label == extract_country_name(c.links)
      filename_base == normalize_name(country_label)
  IN IF ~c.img THEN "noimg"
     ELSE IF ~c.drapeau THEN "nodrapeau"
     ELSE IF country_label = <<>> THEN "nolabel"
     ELSE IF filename_base = <<>> THEN "emptyid"
     ELSE IF Contains(d, filename_base) THEN "dup"
     ELSE IF get_image_url(c.src) = <<>> THEN "nourl"
     ELSE "candidate"

\* get_image_url was called and returned img_url: n is 1 for a URL, 0 for ""
Resolved(img_url) == Ev("resolve", "", IF img_url = <<>> THEN 0 ELSE 1)

\* one turn of the gallery loop up to the download loop
ExamineCell(c) ==
  LET country_label == extract_country_name(c.links)
      why == GalleryVerdict(c, drapeaux)
      img_url == get_image_url(c.src)
  IN /\ pipeline = "gallery"
     /\ pc = "loop"
     /\ cell < MaxCells
     /\ IF why = "candidate"
        THEN /\ cur' = [label |-> country_label, id |-> normalize_name(country_label),
                        url |-> img_url, ext |-> ExtOf(img_url), why |-> why]
             /\ trace' = <<Resolved(img_url)>>
             /\ pc' = "download"
        ELSE /\ cur' = IF why \in {"noimg", "nodrapeau"} THEN [NoCell EXCEPT !.why = why]
                        ELSE [label |-> country_label, id |-> normalize_name(country_label),
                              url |-> <<>>, ext |-> "", why |-> why]
             /\ trace' = IF why = "nourl" THEN <<Resolved(img_url)>> ELSE <<>>
             /\ pc' = "continue"
     /\ cell' = cell + 1
     /\ snap' = Snapshot
     /\ UNCHANGED called
     /\ UNCHANGED seen_rows
     /\ UNCHANGED <<pipeline, run, file, store, drapeaux, count, errors,
                    processed_countries, attempt, success, search, committed, added>>

\* link_text.lower()
LowerStr(s) == [i \in 1..Len(s) |-> Lower[s[i]]]

\* the words a country link may not be
GenericTexts ==
  {<<"d", "r", "a", "p", "e", "a", "u">>, <<"f", "l", "a", "g">>,
   <<"i", "m", "a", "g", "e">>}

\* the link passes the filter of the row loop
IsCountryLink(l) ==
  /\ l.href # "" /\ l.href # "file" /\ l.href # "category"
  /\ LinkText(l.text) # <<>>
  /\ Len(LinkText(l.text)) > 2
  /\ LowerStr(LinkText(l.text)) \notin GenericTexts

\* country_links of a row
country_links(links) ==
  LET kept == SelectSeq(links, IsCountryLink)
  IN [i \in 1..Len(kept) |-> LinkText(kept[i].text)]

\* a row loop that looks the flag up whatever the first cell gave
RowVerdictAlwaysSearches(r, seen, d) ==
  LET names == country_links(r.links)
      filename_base == normalize_name(names[1])
  IN IF r.ncells < 2 THEN "fewcells"
     ELSE IF names = <<>> THEN "nolinks"
     ELSE IF names[1] \in seen THEN "seen"
     ELSE IF filename_base = <<>> THEN "emptyid"
     ELSE IF Contains(d, filename_base) THEN "dup"
     ELSE "search"

\* a row loop that does not look its label up in processed_countries
RowVerdictForgetsSeen(r, seen, d) ==
  LET names == country_links(r.links)
      filename_base == normalize_name(names[1])
  IN IF r.ncells < 2 THEN "fewcells"
     ELSE IF names = <<>> THEN "nolinks"
     ELSE IF filename_base = <<>> THEN "emptyid"
     ELSE IF Contains(d, filename_base) THEN "dup"
     ELSE IF r.img /\ get_image_url(r.src) # <<>> THEN "candidate"
     ELSE "search"

\* what the row loop does with a row, given processed_countries and the catalog
RowVerdict(r, seen, d) ==
  LET names == country_links(r.links)
      filename_base == normalize_name(names[1])
  IN IF r.ncells < 2 THEN "fewcells"
     ELSE IF names = <<>> THEN "nolinks"
     ELSE IF names[1] \in seen THEN "seen"
     ELSE IF filename_base = <<>> THEN "emptyid"
     ELSE IF Contains(d, filename_base) THEN "dup"
     ELSE IF r.img /\ get_image_url(r.src) # <<>> THEN "candidate"
     ELSE "search"

\* country_name in special_cases and special_cases[country_name], for the keys
\* of the table that are labels of the model
InSpecialCases(country_name) == country_name = LabMacao
special_cases(country_name) == <<FileTok("", "Flag_of_Macau", <<>>, ".svg")>>

\* country_name.replace(' ', '_')
country_normalized(country_name) == ReplaceChar(country_name, "space", "_")

\* a table whose names are put before the generic patterns, not in their place
OverridesThenGenerics(country_name) ==
  (IF InSpecialCases(country_name) THEN special_cases(country_name) ELSE <<>>)
    \o <<FileTok("", "Flag_of_", country_normalized(country_name), ".svg"),
         FileTok("", "Flag_of_", country_normalized(country_name), ".png"),
         FileTok("", "Flag_of_the_", country_normalized(country_name), ".svg"),
         FileTok("", "Flag_of_the_", country_normalized(country_name), ".png")>>

\* common_flag_names as the probes find it
common_flag_names(country_name) ==
  IF InSpecialCases(country_name) THEN special_cases(country_name)
  ELSE <<FileTok("", "Flag_of_", country_normalized(country_name), ".svg"),
         FileTok("", "Flag_of_", country_normalized(country_name), ".png"),
         FileTok("", "Flag_of_the_", country_normalized(country_name), ".svg"),
         FileTok("", "Flag_of_the_", country_normalized(country_name), ".png")>>

\* the row whose label the loop read: looked is whether the loop went on to the
\* first cell's image or to search_flag_in_page for it
SeenRow(country_name, why) ==
  [label |-> country_name, looked |-> why \in {"candidate", "search"}]

\* one turn of the row loop up to the download loop or to search_flag_in_page
ExamineRow(r) ==
  LET why == RowVerdict(r, processed_countries, drapeaux)
      names == country_links(r.links)
      country_name == names[1]
      img_url == get_image_url(r.src)
  IN /\ pipeline = "proportions"
     /\ pc = "loop"
     /\ cell < MaxCells
     /\ processed_countries' =
          IF why \in {"fewcells", "nolinks"} THEN processed_countries
          ELSE processed_countries \cup {country_name}
     /\ cur' = IF why \in {"fewcells", "nolinks"} THEN [NoCell EXCEPT !.why = why]
               ELSE [label |-> country_name, id |-> normalize_name(country_name),
                     url |-> IF why = "candidate" THEN img_url ELSE <<>>,
                     ext |-> IF why = "candidate" THEN ExtOf(img_url) ELSE "",
                     why |-> why]
     /\ trace' = IF why \in {"candidate", "search"} /\ r.img
                 THEN <<Resolved(img_url)>> ELSE <<>>
     /\ pc' = IF why = "candidate" THEN "download"
              ELSE IF why = "search" THEN "search" ELSE "continue"
     /\ search' = IF why = "search"
                  THEN [names |-> common_flag_names(country_name), i |-> 1,
                        phase |-> "page"]
                  ELSE NoSearch
     /\ seen_rows' = IF why \in {"fewcells", "nolinks"} THEN seen_rows
                     ELSE Append(seen_rows, SeenRow(country_name, why))
     /\ cell' = cell + 1
     /\ snap' = Snapshot
     /\ UNCHANGED called
     /\ UNCHANGED <<pipeline, run, file, store, drapeaux, count, errors,
                    attempt, success, committed, added>>

(***************************************************************************)
(* search_flag_in_page.                                                    *)
(***************************************************************************)
\* what a GET of a description page can give: status is "exception", "200" or
\* "other"; orig: the "Original file" link ("nolink": none, "nohref": a link
\* with no href, "rel2": href //..., "rel1": href /..., "abs": href https://...);
\* link2: a link to the asset host matching the name; img3: such an <img>
Pages ==
  [status : {"200"}, orig : {"nolink", "nohref", "rel2", "rel1", "abs"},
   link2 : {"none", "rel2"}, img3 : {"none", "rel2"}]
    \cup [status : {"exception", "other"}, orig : {"nolink"}, link2 : {"none"},
          img3 : {"none"}]

AssetHost == <<Slash, Slash, Tok("upload.wikimedia.org"), Slash>>
Https == Tok("https:")

\* the href or src of the kind, for the probed name
HrefOf(kind, flag_name) ==
  IF kind = "rel2" THEN AssetHost \o <<flag_name>>
  ELSE IF kind = "rel1" THEN <<Slash, Tok("wiki"), Slash, flag_name>>
  ELSE IF kind = "abs" THEN <<Https>> \o AssetHost \o <<flag_name>>
  ELSE <<>>

\* what the body of the first loop returns for the page ( <<>> : it goes on)
PageResult(page, flag_name) ==
  IF page.status # "200" THEN <<>>
  ELSE IF page.orig = "nolink"
       THEN IF page.link2 # "none" THEN HrefOf(page.link2, flag_name)
            ELSE IF page.img3 # "none" THEN HrefOf(page.img3, flag_name)
            ELSE <<>>
       ELSE LET file_url == HrefOf(page.orig, flag_name)
            IN IF file_url = <<>> THEN <<>>
               ELSE IF StartsWithSlashSlash(file_url) THEN <<Https>> \o file_url
               ELSE IF StartsWithSlash(file_url)
                    THEN <<Https, Slash, Slash, Tok("commons.wikimedia.org")>> \o file_url
               ELSE file_url

RECURSIVE ReplaceSeq(_, _, _)
\* s.replace(pat, rep): left to right, the matches not overlapping
ReplaceSeq(s, pat, rep) ==
  IF Len(s) < Len(pat) THEN s
  ELSE IF SubSeq(s, 1, Len(pat)) = pat
       THEN rep \o ReplaceSeq(SubSeq(s, Len(pat) + 1, Len(s)), pat, rep)
       ELSE <<Head(s)>> \o ReplaceSeq(Tail(s), pat, rep)

\* "320px-" + flag_name
Px320(flag_name) == [flag_name EXCEPT !.px = "320px-"]

\* direct_url of the second loop
direct_url(flag_name) ==
  <<Https>> \o AssetHost \o
  <<Tok("wikipedia"), Slash, Tok("commons"), Slash, Tok("thumb"), Slash, Tok("a"),
    Slash, Tok("a0"), Slash, flag_name, Slash, Px320(flag_name)>>

\* what the second loop returns on a 200
DirectResult(flag_name) ==
  ReplaceSeq(ReplaceSeq(direct_url(flag_name), <<Slash, Tok("thumb")>>, <<>>),
             <<Slash, Px320(flag_name)>>, <<>>)

\* common_flag_names[:2]
FirstTwo(names) == SubSeq(names, 1, IF Len(names) < 2 THEN Len(names) ELSE 2)

\* search_flag_in_page returned img_url to main()
Searched(img_url) ==
  IF img_url = <<>>
  THEN /\ errors' = errors + 1
       /\ pc' = "continue"
       /\ cur' = [cur EXCEPT !.why = "notfound"]
  ELSE /\ cur' = [cur EXCEPT !.url = img_url, !.ext = ExtOf(img_url)]
       /\ pc' = "download"
       /\ UNCHANGED errors

\* one turn of the first loop: the GET of the description page of a name
ProbePage(page) ==
  LET flag_name == search.names[search.i]
      found == PageResult(page, flag_name)
  IN /\ pc = "search"
     /\ search.phase = "page"
     /\ trace' = Append(trace, Ev("probe", "page", search.i))
     /\ IF found # <<>>
        THEN Searched(found) /\ search' = NoSearch
        ELSE /\ search' = IF search.i < Len(search.names)
                          THEN [search EXCEPT !.i = search.i + 1]
                          ELSE [search EXCEPT !.i = 1, !.phase = "head"]
             /\ UNCHANGED <<pc, cur, errors>>
     /\ UNCHANGED called
     /\ UNCHANGED seen_rows
     /\ UNCHANGED <<pipeline, run, file, store, drapeaux, count, processed_countries,
                    cell, attempt, success, snap, committed, added>>

\* one turn of the second loop: the HEAD of the guessed path of a name
ProbeHead(status) ==
  LET flag_name == search.names[search.i]
  IN /\ pc = "search"
     /\ search.phase = "head"
     /\ trace' = Append(trace, Ev("probe", "head", search.i))
     /\ IF status = "200"
        THEN Searched(DirectResult(flag_name)) /\ search' = NoSearch
        ELSE IF search.i < Len(FirstTwo(search.names))
        THEN /\ search' = [search EXCEPT !.i = search.i + 1]
             /\ UNCHANGED <<pc, cur, errors>>
        ELSE Searched(<<>>) /\ search' = NoSearch
     /\ UNCHANGED called
     /\ UNCHANGED seen_rows
     /\ UNCHANGED <<pipeline, run, file, store, drapeaux, count, processed_countries,
                    cell, attempt, success, snap, committed, added>>

(***************************************************************************)
(* main(): the download loop, the commit and the pause.                    *)
(***************************************************************************)
\* what requests.get(img_url) and raise_for_status() can end in: "200", HTTP
\* 429, another HTTP error status, or an exception that is not an HTTPError
\* (a timeout, a connection error; the only outcome for a URL with no scheme)
Responses(img_url) ==
  IF StartsWithHttp(img_url) THEN {"200", "429", "http_error", "transport"}
  ELSE {"transport"}

\* a handler that retries on every HTTP error status
IsRateLimitedAnyStatus(r) == r \in {"429", "http_error"}

\* the handler of HTTPError sleeps and lets the loop go on
IsRateLimited(r) == r = "429"

\* a backoff that grows by two seconds an attempt: 2, 4, 6
BackoffWaitLinear(a) == 2 * (a + 1)

\* wait = 2 ** (attempt + 1)
BackoffWait(a) == 2 ^ (a + 1)

\* one requests.get of the download loop, and open(filepath, "wb") on a 200
Attempt(r) ==
  /\ pc = "download"
  /\ r \in Responses(cur.url)
  /\ trace' = Append(trace, Ev("get", r, attempt + 1))
  /\ IF r = "200"
     THEN /\ store' = WriteStore(store, FileName(cur.id, cur.ext), "partial")
          /\ pc' = "imgwrite"
     ELSE /\ pc' = IF IsRateLimited(r) THEN "backoff" ELSE "after"
          /\ UNCHANGED store
  /\ UNCHANGED called
  /\ UNCHANGED seen_rows
  /\ UNCHANGED <<pipeline, run, file, drapeaux, count, errors, processed_countries,
                 cell, cur, attempt, success, search, snap, committed, added>>

\* f.write(img_response.content), success = True, break
ImgWrite ==
  /\ pc = "imgwrite"
  /\ store' = WriteStore(store, FileName(cur.id, cur.ext), "bytes")
  /\ success' = TRUE
  /\ trace' = Append(trace, Ev("write", cur.ext, 0))
  /\ pc' = "after"
  /\ UNCHANGED called
  /\ UNCHANGED seen_rows
  /\ UNCHANGED <<pipeline, run, file, drapeaux, count, errors, processed_countries,
                 cell, cur, attempt, search, snap, committed, added>>

\* time.sleep(wait) and the step of the for loop
Backoff ==
  /\ pc = "backoff"
  /\ trace' = Append(trace, Ev("sleep", "", BackoffWait(attempt)))
  /\ IF attempt + 1 < MaxAttempts(pipeline)
     THEN attempt' = attempt + 1 /\ pc' = "download"
     ELSE pc' = "after" /\ UNCHANGED attempt
  /\ UNCHANGED called
  /\ UNCHANGED seen_rows
  /\ UNCHANGED <<pipeline, run, file, store, drapeaux, count, errors,
                 processed_countries, cell, cur, success, search, snap, committed, added>>

\* x[key] = value raises TypeError when x is a list
SetItemRaises(x) == x.kind # "dict"

\* a loop that commits whatever the download loop ended in
CommitsAlways(ok) == TRUE

\* the commit is made for this outcome of the download loop
Commits(ok) == ok

\* if success: drapeaux[filename_base] = country_label; count += 1
\* else: errors += 1
AfterAttempts ==
  /\ pc = "after"
  /\ IF Commits(success)
     THEN IF SetItemRaises(drapeaux)
          THEN /\ pc' = "crashed"
               /\ UNCHANGED <<drapeaux, count, errors, added, trace>>
          ELSE /\ drapeaux' = PyDict(SetItem(drapeaux.items, cur.id, cur.label))
               /\ count' = count + 1
               /\ added' = added \cup {cur.id}
               /\ trace' = Append(trace, Ev("insert", "", 0))
               /\ pc' = "jsonopen"
               /\ UNCHANGED errors
     ELSE /\ errors' = errors + 1
          /\ pc' = "pause"
          /\ UNCHANGED <<drapeaux, count, added, trace>>
  /\ UNCHANGED called
  /\ UNCHANGED seen_rows
  /\ UNCHANGED <<pipeline, run, file, store, processed_countries, cell, cur,
                 attempt, success, search, snap, committed>>

\* a commit that writes the items in the order of their insertion
drapeaux_unsorted(d) == d.items

\* drapeaux_sorted = dict(sorted(drapeaux.items()))
drapeaux_sorted(d) == SortItems(d.items)

\* open(JSON_FILE, "w"): the file is emptied; writable: open() did not raise
\* (it can raise only on a file the process could not read either)
JsonOpen(writable) ==
  /\ pc = "jsonopen"
  /\ OpenRaises(file) \/ writable
  /\ IF writable
     THEN file' = CutText(<<>>) /\ pc' = "jsondump"
     ELSE pc' = "crashed" /\ UNCHANGED file
  /\ UNCHANGED called
  /\ UNCHANGED seen_rows
  /\ UNCHANGED <<pipeline, run, store, drapeaux, count, errors, processed_countries,
                 cell, locals, snap, committed, added>>

\* json.dump writes the next item of drapeaux_sorted
JsonDump ==
  /\ pc = "jsondump"
  /\ Len(file.items) < Len(drapeaux_sorted(drapeaux))
  /\ file' = CutText(Append(file.items, drapeaux_sorted(drapeaux)[Len(file.items) + 1]))
  /\ UNCHANGED called
  /\ UNCHANGED seen_rows
  /\ UNCHANGED <<pipeline, run, pc, store, drapeaux, count, errors,
                 processed_countries, cell, locals, snap, committed, added>>

\* json.dump writes the closing brace and the with block closes the file
JsonClose ==
  /\ pc = "jsondump"
  /\ Len(file.items) = Len(drapeaux_sorted(drapeaux))
  /\ file' = ObjectText(file.items)
  /\ committed' = committed \cup {<<cur.id, cur.label>>}
  /\ trace' = Append(trace, Ev("commit", "", 0))
  /\ pc' = "pause"
  /\ UNCHANGED called
  /\ UNCHANGED seen_rows
  /\ UNCHANGED <<pipeline, run, store, drapeaux, count, errors, processed_countries,
                 cell, cur, attempt, success, search, snap, added>>

\* time.sleep(0.5) or time.sleep(1): the end of the body of the loop
Pause ==
  /\ pc = "pause"
  /\ trace' = Append(trace, Ev("pause", "", PauseMs(pipeline)))
  /\ pc' = "continue"
  /\ UNCHANGED called
  /\ UNCHANGED seen_rows
  /\ UNCHANGED <<pipeline, run, file, store, drapeaux, count, errors,
                 processed_countries, cell, cur, attempt, success, search, snap, committed, added>>

\* the loop goes to its next cell or row (a continue, or the end of the body)
NextTurn ==
  /\ pc = "continue"
  /\ pc' = "loop"
  /\ cur' = NoCell
  /\ attempt' = 0
  /\ success' = FALSE
  /\ search' = NoSearch
  /\ trace' = <<>>
  /\ snap' = NoSnap
  /\ UNCHANGED called
  /\ UNCHANGED seen_rows
  /\ UNCHANGED <<pipeline, run, file, store, drapeaux, count, errors,
                 processed_countries, cell, committed, added>>

\* the loops are over: the summary is printed
Finish ==
  /\ pc = "loop"
  /\ pc' = "done"
  /\ UNCHANGED called
  /\ UNCHANGED seen_rows
  /\ UNCHANGED <<pipeline, run, file, store, drapeaux, count, errors,
                 processed_countries, cell, locals, snap, committed, added>>

(***************************************************************************)
(* The runs: an interrupt (KeyboardInterrupt, a kill) ends a run at any    *)
(* step; the script may be run again on the same directory.                *)
(***************************************************************************)
Ended == pc \in {"done", "aborted", "crashed", "interrupted"}

\* the memory of a process that is gone
Forgotten ==
  /\ drapeaux' = PyDict(<<>>)
  /\ count' = 0
  /\ errors' = 0
  /\ processed_countries' = {}
  /\ cur' = NoCell
  /\ attempt' = 0
  /\ success' = FALSE
  /\ search' = NoSearch
  /\ trace' = <<>>
  /\ snap' = NoSnap
  /\ added' = {}
  /\ seen_rows' = <<>>

\* the process is stopped where it is; the with blocks close the open files
Interrupt ==
  /\ ~Ended
  /\ pc' = "interrupted"
  /\ Forgotten
  /\ UNCHANGED called
  /\ UNCHANGED <<pipeline, run, file, store, cell, committed>>

\* the script is started again
Restart ==
  /\ Ended
  /\ run < MaxRuns
  /\ run' = run + 1
  /\ pc' = "start"
  /\ Forgotten
  /\ UNCHANGED called
  /\ UNCHANGED <<pipeline, file, store, cell, committed>>

Next ==
  \/ \E ok \in BOOLEAN : FetchPage(ok)
  \/ LoadCatalog
  \/ \E c \in GalleryCells : ExamineCell(c)
  \/ \E r \in ProportionRows : ExamineRow(r)
  \/ \E page \in Pages : ProbePage(page)
  \/ \E status \in {"200", "other", "exception"} : ProbeHead(status)
  \/ \E r \in {"200", "429", "http_error", "transport"} : Attempt(r)
  \/ ImgWrite
  \/ Backoff
  \/ AfterAttempts
  \/ \E writable \in BOOLEAN : JsonOpen(writable)
  \/ JsonDump
  \/ JsonClose
  \/ Pause
  \/ NextTurn
  \/ Finish
  \/ Interrupt
  \/ Restart

Spec == Init /\ [][Next]_vars

(***************************************************************************)
(* What the trace of the cell or row at hand holds.                        *)
(***************************************************************************)
IsGet(e) == e.ev = "get"
IsSleep(e) == e.ev = "sleep"
IsGetOrSleep(e) == e.ev \in {"get", "sleep"}
Gets == SelectSeq(trace, IsGet)
Sleeps == SelectSeq(trace, IsSleep)
GetsAndSleeps == SelectSeq(trace, IsGetOrSleep)
Happened(ev) == \E i \in 1..Len(trace) : trace[i].ev = ev

\* the first three attempts for the candidate were all answered 429
ThreeRateLimits == Len(Gets) >= 3 /\ \A i \in 1..3 : Gets[i].r = "429"

\* every attempt made so far for the candidate was answered 429
OnlyRateLimits == Gets # <<>> /\ \A i \in 1..Len(Gets) : Gets[i].r = "429"

\* the three attempts and the three sleeps of C1, in their order
ThreeBackoffs ==
  <<Ev("get", "429", 1), Ev("sleep", "", 2), Ev("get", "429", 2), Ev("sleep", "", 4),
    Ev("get", "429", 3), Ev("sleep", "", 8)>>

\* the image of the candidate is in the image store, whole
Stored(id, ext) == <<FileName(id, ext), "bytes">> \in store

\* nothing of the catalog changed since the loop took the cell or row
CatalogUntouched == drapeaux = snap.drapeaux /\ file = snap.file

(***************************************************************************)
(* C1.                                                                     *)
(***************************************************************************)
\* C1 as stated: in each pipeline, after three attempts answered 429 and
\* their three sleeps, a fourth attempt is made.
C1_FourthAttemptInEachPipeline ==
  (ThreeRateLimits /\ Len(Sleeps) >= 3) => (pc = "download" \/ Len(Gets) >= 4)

\* C1 as amended: after three attempts answered 429 the sleeps are of 2, 4 and
\* 8 seconds, each after its attempt.  In the gallery pipeline a fourth attempt
\* follows, and when it is answered 200 no other sleep or attempt is made, the
\* bytes are stored and the candidate is in the catalog and in the persisted
\* store once the commit is over.  In the proportions pipeline no fourth
\* attempt is made: the candidate is counted as one error and not committed.
C1_ThreeBackoffsThenSuccess ==
  ThreeRateLimits =>
    /\ \A i \in 1..6 : i <= Len(GetsAndSleeps) => GetsAndSleeps[i] = ThreeBackoffs[i]
    /\ pipeline = "gallery" =>
         /\ Len(Sleeps) >= 3 => (pc = "download" \/ Len(Gets) >= 4)
         /\ (Len(Gets) >= 4 /\ Gets[4].r = "200") =>
              /\ GetsAndSleeps = Append(ThreeBackoffs, Ev("get", "200", 4))
              /\ pc \in {"imgwrite", "after", "jsonopen", "jsondump", "pause",
                         "continue", "crashed"}
              /\ pc # "imgwrite" => (success /\ Stored(cur.id, cur.ext))
              /\ pc \in {"jsonopen", "jsondump", "pause", "continue"} =>
                   <<cur.id, cur.label>> \in AsMapping(drapeaux.items)
              /\ pc \in {"pause", "continue"} =>
                   (file.complete /\ <<cur.id, cur.label>> \in AsMapping(file.items))
    /\ pipeline = "proportions" =>
         /\ Len(Gets) = 3
         /\ ~success
         /\ Len(Sleeps) >= 3 => (Len(Sleeps) = 3 /\ pc \in {"after", "pause", "continue"})
         /\ CatalogUntouched
         /\ errors = IF pc \in {"pause", "continue"} THEN snap.errors + 1 ELSE snap.errors

\* the gallery pipeline committed a candidate at its fourth attempt
C1_Witness ==
  /\ pipeline = "gallery" /\ pc = "continue"
  /\ ThreeRateLimits /\ Len(Gets) = 4 /\ Gets[4].r = "200"
  /\ Happened("commit")

(***************************************************************************)
(* C2.                                                                     *)
(***************************************************************************)
IsFatalGet(e) == e.ev = "get" /\ e.r \in {"http_error", "transport"}

\* C2: after an attempt that failed with an HTTP error other than 429, a timeout
\* or a connection error, no attempt and no backoff sleep is made for the
\* candidate, nothing is stored or committed, and the error count is the one
\* before the candidate plus one as soon as the loop body is past its end.
C2_FailureEndsTheAttempts ==
  \A i \in 1..Len(trace) :
     IsFatalGet(trace[i]) =>
       /\ \A j \in (i + 1)..Len(trace) : trace[j].ev = "pause"
       /\ pc \in {"after", "pause", "continue"}
       /\ ~success
       /\ CatalogUntouched
       /\ store = snap.store
       /\ errors = IF pc = "after" THEN snap.errors ELSE snap.errors + 1

\* a transport failure at the second attempt, after a 429
C2_Witness ==
  /\ pc = "continue"
  /\ Len(Gets) = 2 /\ Gets[1].r = "429" /\ Gets[2].r = "transport"

(***************************************************************************)
(* C3.                                                                     *)
(***************************************************************************)
\* C3: at most 5 (gallery) or 3 (proportions) attempts are made for a candidate;
\* a candidate only ever answered 429 is counted as an error once, and not
\* before all the attempts were made.
C3_AttemptBudget ==
  LET N == IF pipeline = "gallery" THEN 5 ELSE 3
  IN /\ Len(Gets) <= N
     /\ OnlyRateLimits =>
          /\ errors \in {snap.errors, snap.errors + 1}
          /\ errors = snap.errors + 1 => Len(Gets) = N
          /\ pc \in {"pause", "continue"} => errors = snap.errors + 1
          /\ pc \in {"download", "backoff", "after", "pause", "continue"}
          /\ CatalogUntouched

\* the gallery pipeline gave a candidate up after five 429
C3_Witness ==
  /\ pipeline = "gallery" /\ pc = "continue"
  /\ OnlyRateLimits /\ Len(Gets) = 5

(***************************************************************************)
(* C4.                                                                     *)
(***************************************************************************)
\* the label of the cell or row normalizes to a key the catalog held when the
\* loop took it
KnownIdentifier ==
  /\ snap.taken
  /\ cur.label # <<>>
  /\ snap.drapeaux.kind = "dict"
  /\ normalize_name(cur.label) \in Keys(snap.drapeaux.items)

\* C4: a candidate whose identifier is a key of the catalog is skipped with no
\* resolution, no lookup and no download; the catalog, the persisted store, the
\* image store and the error count stay as they were.
C4_KnownIdentifierSkipped ==
  KnownIdentifier =>
    /\ pc = "continue"
    /\ trace = <<>>
    /\ CatalogUntouched
    /\ store = snap.store
    /\ errors = snap.errors

\* a candidate whose identifier this run committed before
C4_Witness == KnownIdentifier /\ normalize_name(cur.label) \in added

(***************************************************************************)
(* C5, C6, C7.                                                             *)
(***************************************************************************)
\* C5: while a commit writes the persisted store, the file holds the complete
\* mapping of before the commit or the complete mapping of after it.
C5_CommitIsAtomic ==
  pc = "jsondump" =>
    (file = snap.file \/ file = ObjectText(SortItems(drapeaux.items)))

\* C6: the catalog a run loads after an interrupt holds every entry whose
\* commit was over before the interrupt.
C6_ResumeKeepsCommitted ==
  (run > 1 /\ pc = "loop") => committed \subseteq AsMapping(drapeaux.items)

\* C7: whatever the persisted store holds, the load gives a mapping and no
\* step of the run fails on it.
C7_LoadNeverFailsTheRun == pc # "crashed" /\ drapeaux.kind = "dict"

(***************************************************************************)
(* C8.                                                                     *)
(***************************************************************************)
\* the resolution was tried for the candidate and gave no URL
ResolutionFailed ==
  /\ pc = "continue"
  /\ cur.id # <<>>
  /\ cur.url = <<>>
  /\ (Happened("resolve") \/ Happened("probe"))

\* C8: in both pipelines a candidate with no image URL is skipped with no
\* download attempt and no commit, and one is added to the error count.
C8_ResolutionFailureCounted ==
  ResolutionFailed =>
    /\ Gets = <<>>
    /\ CatalogUntouched
    /\ store = snap.store
    /\ errors = snap.errors + 1

(***************************************************************************)
(* C9.                                                                     *)
(***************************************************************************)
\* the keys of the items are in strictly ascending order
Ascending(items) ==
  \A i \in 1..Len(items) : \A j \in 1..Len(items) :
     i < j => StrLess(items[i][1], items[j][1])

\* C9: after a commit the persisted store holds the in-memory mapping, its keys
\* ascending, and loading it gives that mapping.
C9_StoreIsSortedCatalog ==
  Happened("commit") =>
    /\ file.kind = "object" /\ file.complete
    /\ Len(file.items) = Len(drapeaux.items)
    /\ AsMapping(file.items) = AsMapping(drapeaux.items)
    /\ Ascending(file.items)
    /\ LoadedCatalog(file).kind = "dict"
    /\ AsMapping(LoadedCatalog(file).items) = AsMapping(drapeaux.items)

\* a commit of an identifier that sorts before one inserted earlier
C9_Witness ==
  /\ Happened("commit")
  /\ Len(drapeaux.items) >= 2
  /\ file.items # drapeaux.items

(***************************************************************************)
(* C10.                                                                    *)
(***************************************************************************)
\* C10: every identifier this run added has its image, whole, in the image
\* store; an insert comes after a 200 and the write of the bytes; a candidate
\* whose attempts failed is not added.
C10_CommitOnlyAfterStore ==
  /\ \A id \in added : \E f \in store : f[1][1] = id /\ f[2] = "bytes"
  /\ \A i \in 1..Len(trace) :
       trace[i].ev = "insert" =>
         /\ \E g \in 1..(i - 1) : \E w \in (g + 1)..(i - 1) :
               trace[g] = Ev("get", "200", trace[g].n) /\ trace[w].ev = "write"
         /\ Stored(cur.id, cur.ext)
  /\ (pc \in {"pause", "continue"} /\ Gets # <<>> /\ ~Happened("write")) =>
       (cur.id \notin added /\ CatalogUntouched)

\* a candidate was added by this run
C10_Witness == pc = "continue" /\ cur.id \in added /\ Happened("commit")

(***************************************************************************)
(* C11.                                                                    *)
(***************************************************************************)
IsPause(e) == e.ev = "pause"
Pauses == SelectSeq(trace, IsPause)

\* C11: when the loop is through with a candidate for which a GET was made,
\* one pause was taken, of 0.5 s (gallery) or 1 s (proportions), after the
\* attempts and whatever followed them; no pause is taken before the loop is
\* through with the candidate, and never two.
C11_OnePauseAfterAttempts ==
  /\ Len(Pauses) <= 1
  /\ Pauses # <<>> => (pc = "continue" /\ Gets # <<>>)
  /\ (pc = "continue" /\ Gets # <<>>) =>
       /\ Pauses = <<Ev("pause", "", IF pipeline = "gallery" THEN 500 ELSE 1000)>>
       /\ trace[Len(trace)].ev = "pause"

\* the proportions pipeline paused after three attempts answered 429
C11_Witness ==
  /\ pipeline = "proportions" /\ pc = "continue"
  /\ OnlyRateLimits /\ Len(Gets) = 3 /\ Pauses # <<>>

(***************************************************************************)
(* C12.                                                                    *)
(***************************************************************************)
\* C12: once the page is fetched, nothing that happens for a cell or row ends
\* the run: the run is never dead with a cell or row in hand.
C12_NoCandidateStopsTheRun == ~(pc = "crashed" /\ snap.taken)

(***************************************************************************)
(* normalize_name and get_image_url called on their own, on every name and *)
(* every src of a bounded set.                                             *)
(***************************************************************************)
\* the alphabet of the names: a lower and an upper case letter, a digit, a
\* space, punctuation, the separator, the apostrophes, two accented letters
NameChars == {"a", "A", "1", "space", "hyphen", "_", "apos", "rsquo", "e_acute", "E_acute"}
Names == UNION {[1..k -> NameChars] : k \in 0..MaxLen}

\* the src attributes: scheme-relative, absolute and root-relative, with and
\* without the thumbnail marker, with and without a query
Hosts ==
  {<<Slash, Slash, Tok("upload.wikimedia.org")>>,
   <<Tok("https:"), Slash, Slash, Tok("upload.wikimedia.org")>>,
   <<Tok("http:"), Slash, Slash, Tok("upload.wikimedia.org")>>,
   <<>>}
PathOriginal == <<Slash, Tok("7"), Slash, Tok("77"), Slash, FileTok("", "Flag", <<>>, ".svg")>>
PathThumb ==
  <<Slash, Tok("thumb")>> \o PathOriginal \o <<Slash, FileTok("120px-", "Flag.svg", <<>>, ".png")>>
Paths == {PathOriginal, PathThumb, PathOriginal \o <<Query, Tok("v")>>}
SrcInputs == Srcs \cup {h \o p : h \in Hosts, p \in Paths}

Call(f, x) == [f |-> f, x |-> x]

PureInit ==
  /\ pipeline = "gallery"
  /\ run = 1
  /\ pc = "call"
  /\ file = NoFile
  /\ store = {}
  /\ drapeaux = PyDict(<<>>)
  /\ count = 0
  /\ errors = 0
  /\ processed_countries = {}
  /\ cell = 0
  /\ cur = NoCell
  /\ attempt = 0
  /\ success = FALSE
  /\ search = NoSearch
  /\ trace = <<>>
  /\ snap = NoSnap
  /\ committed = {}
  /\ added = {}
  /\ seen_rows = <<>>
  /\ arg \in {Call("normalize_name", x) : x \in Names}
              \cup {Call("get_image_url", x) : x \in SrcInputs}
  /\ ret = <<>>

\* the variables of main()
ofMain == <<pipeline, run, file, store, drapeaux, count, errors, processed_countries,
            cell, cur, attempt, success, search, trace, snap, committed, added,
            seen_rows>>

\* ret = normalize_name(arg)
CallNormalizeName ==
  /\ pc = "call"
  /\ arg.f = "normalize_name"
  /\ ret' = normalize_name(arg.x)
  /\ pc' = "returned"
  /\ UNCHANGED <<arg, ofMain>>

\* normalize_name called on what it returned
CallNormalizeNameAgain ==
  /\ pc = "returned"
  /\ arg.f = "normalize_name"
  /\ arg' = Call("normalize_name", ret)
  /\ ret' = normalize_name(ret)
  /\ pc' = "returned_again"
  /\ UNCHANGED ofMain

\* ret = get_image_url(img_tag), arg the src of img_tag
CallGetImageUrl ==
  /\ pc = "call"
  /\ arg.f = "get_image_url"
  /\ ret' = get_image_url(arg.x)
  /\ pc' = "returned"
  /\ UNCHANGED <<arg, ofMain>>

PureNext ==
  \/ CallNormalizeName
  \/ CallNormalizeNameAgain
  \/ CallGetImageUrl

PureSpec == PureInit /\ [][PureNext]_vars

(***************************************************************************)
(* C13.                                                                    *)
(***************************************************************************)
\* only [a-z0-9_], no "_" at either end, no two "_" in a row
Canonical(s) ==
  /\ \A i \in 1..Len(s) : s[i] \in AlNum \cup {"_"}
  /\ s # <<>> => (s[1] # "_" /\ s[Len(s)] # "_")
  /\ \A i \in 1..(Len(s) - 1) : ~(s[i] = "_" /\ s[i + 1] = "_")

\* C13: what normalize_name returns is canonical, and normalize_name called on
\* it returns it unchanged.
C13_NormalizeIdempotentCanonical ==
  (pc \in {"returned", "returned_again"} /\ arg.f = "normalize_name") =>
    /\ Canonical(ret)
    /\ pc = "returned_again" => ret = arg.x

\* normalize_name called again on an identifier with a separator in it
C13_Witness ==
  /\ pc = "returned_again" /\ arg.f = "normalize_name"
  /\ Len(ret) = 3 /\ ret[2] = "_"

(***************************************************************************)
(* C14.                                                                    *)
(***************************************************************************)
\* the places of the marker segment /thumb/ in url
MarkerPlaces(url) ==
  {i \in 1..(Len(url) - 2) :
     url[i] = Slash /\ url[i + 1] = Tok("thumb") /\ url[i + 2] = Slash}

\* url with its marker segment and its last segment taken out
WithoutMarkerAndLast(url) ==
  LET i == Min(MarkerPlaces(url))
      unmarked == SubSeq(url, 1, i) \o SubSeq(url, i + 3, Len(url))
  IN SubSeq(unmarked, 1, Max(Places(unmarked, Slash)) - 1)

\* C14: get_image_url returns the src, with https: before it when it is
\* scheme-relative, and with the marker segment and the last segment taken out
\* when it holds the marker; any other src is returned as it is.
C14_ThumbnailRewritten ==
  (pc = "returned" /\ arg.f = "get_image_url") =>
    LET absolute == IF StartsWithSlashSlash(arg.x) THEN <<Tok("https:")>> \o arg.x
                    ELSE arg.x
    IN ret = IF HasThumb(arg.x) THEN WithoutMarkerAndLast(absolute) ELSE absolute

(***************************************************************************)
(* C15.                                                                    *)
(***************************************************************************)
\* the label of the cell or row at hand normalizes to the empty string
EmptyIdentifier ==
  /\ snap.taken
  /\ cur.label # <<>>
  /\ normalize_name(cur.label) = <<>>

\* C15: the empty identifier is not added to the catalog or written to the
\* persisted store; a candidate whose label normalizes to it is skipped with no
\* resolution, no lookup and no download, and the catalog, the persisted store,
\* the image store and the error count stay as they were.
C15_EmptyIdentifierDropped ==
  /\ <<>> \notin added
  /\ drapeaux.kind = "dict" => <<>> \notin Keys(drapeaux.items)
  /\ file.kind = "object" => <<>> \notin Keys(file.items)
  /\ EmptyIdentifier =>
       /\ pc = "continue"
       /\ trace = <<>>
       /\ CatalogUntouched
       /\ store = snap.store
       /\ errors = snap.errors

\* a row of the proportions pipeline whose label is punctuation only
C15_Witness == EmptyIdentifier /\ pipeline = "proportions" /\ cur.why = "emptyid"

(***************************************************************************)
(* C16.                                                                    *)
(***************************************************************************)
\* C16: no step of a run takes an entry out of the catalog or changes its
\* label (the steps that end the process or start the next one aside).
C16_EntriesNeverMutated ==
  [][(drapeaux.kind = "dict" /\ run' = run /\ pc' # "interrupted") =>
       AsMapping(drapeaux.items) \subseteq AsMapping(drapeaux'.items)]_vars

\* a candidate was skipped whose label is not the one its identifier was
\* committed with earlier in the run
C16_Witness ==
  /\ pc = "continue" /\ cur.why = "dup"
  /\ drapeaux.kind = "dict"
  /\ cur.id \in added
  /\ ValueOf(drapeaux.items, cur.id) # cur.label

(***************************************************************************)
(* C17.                                                                    *)
(***************************************************************************)
IsPageProbe(e) == e.ev = "probe" /\ e.r = "page"
IsHeadProbe(e) == e.ev = "probe" /\ e.r = "head"
PageProbes == SelectSeq(trace, IsPageProbe)
HeadProbes == SelectSeq(trace, IsHeadProbe)

\* the label of the row at hand is a key of the override table
OverrideLabel == snap.taken /\ InSpecialCases(cur.label)

\* C17 as stated: when no override filename yielded a URL, the generic patterns
\* are probed after the override filenames.
C17_GenericsAfterOverrides ==
  (OverrideLabel /\ cur.why = "notfound") =>
    Len(PageProbes) > Len(special_cases(cur.label))

\* C17 as amended: for a label of the override table the override filenames
\* are the only names probed, each by a description-page request, then the
\* first two by an existence probe; no generic pattern is probed for it.
C17_OverridesReplaceGenerics ==
  OverrideLabel =>
    LET names == special_cases(cur.label)
    IN /\ pc = "search" => search.names = names
       /\ \A i \in 1..Len(trace) : trace[i].ev = "probe" => trace[i].n <= Len(names)
       /\ Len(PageProbes) <= Len(names)
       /\ Len(HeadProbes) <= Len(FirstTwo(names))
       /\ cur.why = "notfound" =>
            (Len(PageProbes) = Len(names) /\ Len(HeadProbes) = Len(FirstTwo(names)))

\* no flag was found for "Macao" after the probes of its override filename
C17_Witness ==
  /\ OverrideLabel /\ pc = "continue" /\ cur.why = "notfound"
  /\ PageProbes # <<>> /\ HeadProbes # <<>>

(***************************************************************************)
(* C18.                                                                    *)
(***************************************************************************)
\* C18: once the attempts for a candidate are over, the last of its attempts
\* and backoff sleeps is an attempt: no sleep is followed by giving up.
C18_EverySleepIsRetried ==
  (pc \in {"after", "pause", "continue"} /\ Sleeps # <<>>) =>
    GetsAndSleeps[Len(GetsAndSleeps)].ev = "get"

(***************************************************************************)
(* C19.                                                                    *)
(***************************************************************************)
IsProbe(e) == e.ev = "probe"
Probes == SelectSeq(trace, IsProbe)

\* the probes of search_flag_in_page in their order: a description-page
\* request for every name, then an existence probe for the first two names
ProbeOrder(names) ==
  [i \in 1..Len(names) |-> Ev("probe", "page", i)]
    \o [i \in 1..(IF Len(names) < 2 THEN Len(names) ELSE 2) |-> Ev("probe", "head", i)]

\* C19: probes are made in the proportions pipeline alone, and only when the
\* first cell gave no image URL; they are made in the fixed order; no probe is
\* made once a URL is found; when all the probes fail the candidate is
\* not-found, counted as one error, and the loop goes on.
C19_FallbackShortCircuits ==
  Probes # <<>> =>
    LET order == ProbeOrder(common_flag_names(cur.label))
    IN /\ pipeline = "proportions"
       /\ \A i \in 1..Len(trace) : trace[i].ev = "resolve" => trace[i].n = 0
       /\ Len(Probes) <= Len(order)
       /\ \A i \in 1..Len(Probes) : Probes[i] = order[i]
       /\ pc = "search" <=> (cur.url = <<>> /\ cur.why # "notfound")
       /\ \A i \in 1..Len(trace) : \A j \in (i + 1)..Len(trace) :
             trace[i].ev = "get" => trace[j].ev # "probe"
       /\ cur.why = "notfound" =>
            /\ Probes = order
            /\ pc = "continue"
            /\ Gets = <<>>
            /\ errors = snap.errors + 1

\* the existence probe of the second name gave the URL, after the description
\* pages of the four names gave none
C19_Witness ==
  /\ pc = "download"
  /\ cur.url # <<>>
  /\ Len(PageProbes) = 4 /\ Len(HeadProbes) = 2

(***************************************************************************)
(* C20.                                                                    *)
(***************************************************************************)
\* C20: between two cells or rows and at the summary, count is the number of
\* entries of the catalog; a candidate for which a GET was made has added one
\* to count or one to errors, and not to both.
C20_CountsAddUp ==
  /\ pc \in {"loop", "pause", "continue", "done"} => count = Len(drapeaux.items)
  /\ (pc \in {"pause", "continue"} /\ Gets # <<>>) =>
       \/ count = snap.count + 1 /\ errors = snap.errors
       \/ count = snap.count /\ errors = snap.errors + 1

\* the summary of a run that loaded one entry, committed one and failed one
C20_Witness ==
  /\ pc = "done" /\ run = 1
  /\ count = 2 /\ errors = 1
  /\ Cardinality(added) = 1

(***************************************************************************)
(* C21.                                                                    *)
(***************************************************************************)
\* the row the loop is at is one whose label it read
AtSeenRow == pipeline = "proportions" /\ snap.taken /\ cur.label # <<>>

\* the label of the row the loop is at was read from an earlier row of the run
RepeatedLabel ==
  /\ AtSeenRow
  /\ \E i \in 1..(Len(seen_rows) - 1) : seen_rows[i].label = cur.label

\* C21: in the proportions pipeline, of the rows of one run that bear the same
\* label only the first one has its image looked for; a row whose label an
\* earlier row of the run bore is skipped: no request is made for it, and the
\* error count, the count, the store and the catalog stay as they were,
\* whatever became of the earlier row.
C21_LabelLookedForOnce ==
  /\ \A i \in 1..Len(seen_rows) : \A j \in (i + 1)..Len(seen_rows) :
        seen_rows[i].label = seen_rows[j].label => ~seen_rows[j].looked
  /\ AtSeenRow => seen_rows[Len(seen_rows)].label = cur.label
  /\ RepeatedLabel =>
       /\ cur.why = "seen"
       /\ pc = "continue"
       /\ trace = <<>>
       /\ errors = snap.errors
       /\ count = snap.count
       /\ store = snap.store
       /\ file = snap.file
       /\ drapeaux = snap.drapeaux

\* a row bears the label of the row before it, whose image was looked for and
\* not stored: the one error of the run is that of the earlier row
C21_Witness ==
  /\ RepeatedLabel
  /\ Len(seen_rows) = 2
  /\ seen_rows[1].looked
  /\ errors = 1
  /\ count = 0
  /\ ~Contains(drapeaux, cur.id)

=============================================================================
